---- MODULE Spec2Model ----
(***************************************************************************)
(* Model of the Excalibur event cloner (src/src/App.tsx): the React state  *)
(* of the App component, its relay-list and key-entry handlers, and the    *)
(* asynchronous handler handleCloneEvents.  One action is one run of the   *)
(* JavaScript event loop: a UI handler, or the part of handleCloneEvents   *)
(* that runs between two awaits.                                           *)
(***************************************************************************)
EXTENDS Integers, Sequences, FiniteSets, TLC

(* ---------------------------- bounds ----------------------------------- *)
MaxEvents == 2        \* events a relay query may return
MaxRelays == 2        \* entries of the relay list
MaxInvocations == 2   \* clicks on "Clone Events" in one behaviour
MaxEdits == 1         \* key and relay edits made while one invocation runs

(* ------------------------- program constants --------------------------- *)
QueryLimit == 50
TextNoteKind == 1
Null == "null"
DefaultRelay == "wss://relay.damus.io"

(* ----------------------------- inputs ---------------------------------- *)
\* A key text is its bech32 prefix followed by its payload; '' is <<>>.
NpubTexts == { <<>>, <<"npub1", "good">>, <<"npub1", "bad">> }
NsecTexts == { <<>>, <<"nsec1", "good">>, <<"nsec1", "bad">> }
RelayTexts == { DefaultRelay, "" }
\* Values of Math.floor(Date.now() / 1000): two consecutive seconds.
Instants == { 0, 1 }

VARIABLES
  npub, relays, events, isModalOpen, nsec, isLoading, error, status,
  pc, cNsec, cRelays, fetchedEvents, clonedEvents, i, pub,
  clock,
  edits, invocations, outcome, failedAt, queryIssued, publishLog, errorsSet,
  pubOutcome, startedAfter, sampled, statusLog, atStart, relayLog, prevOutcome

uiVars == << npub, relays, events, isModalOpen, nsec, isLoading, error, status >>
localVars == << pc, cNsec, cRelays, fetchedEvents, clonedEvents, i, pub >>
histVars == << edits, invocations, outcome, failedAt, queryIssued, publishLog, errorsSet,
               pubOutcome, startedAfter, sampled, statusLog, atStart, relayLog,
               prevOutcome >>
vars == << uiVars, localVars, clock, histVars >>

(* ------------------------- library functions --------------------------- *)
StartsWith(text, prefix) == Len(text) > 0 /\ text[1] = prefix

\* nip19.decode: the type is the prefix without its separator; a payload
\* with a bad checksum throws.
Nip19Decode(text) ==
  IF Len(text) = 2 /\ text[2] # "bad"
    THEN [type |-> IF text[1] = "npub1" THEN "npub"
                   ELSE IF text[1] = "nsec1" THEN "nsec" ELSE "other",
          data |-> text[2]]
    ELSE [type |-> "throw", data |-> "Invalid checksum"]

GetPublicKey(secretKey) == << "pub", secretKey >>

\* The events the relays hold for the source author.
SourceEvent(n) ==
  [id |-> << "src", n >>, pubkey |-> "good", created_at |-> -1,
   kind |-> TextNoteKind, tags |-> << >>, content |-> n, sig |-> << "srcsig", n >>]

\* getEventHash: the hash of the serialized pubkey, created_at, kind, tags
\* and content.
EventHash(ev) == << ev.pubkey, ev.created_at, ev.kind, ev.tags, ev.content >>

FinalizeEvent(ev, secretKey) ==
  LET withKey == [ev EXCEPT !.pubkey = GetPublicKey(secretKey)]
      hash == EventHash(withKey)
  IN [withKey EXCEPT !.id = hash, !.sig = << "sig", secretKey, hash >>]

\* Promise.any replaced by a join that waits for every relay.
PromiseAny_WaitsForAll(row) ==
  IF row.pending > 0 THEN "pending"
  ELSE IF row.ok > 0 THEN "fulfilled"
  ELSE "rejected"

\* Promise.any replaced by a join that never rejects (Promise.allSettled).
PromiseAny_NeverRejects(row) ==
  IF row.pending > 0 THEN "pending" ELSE "fulfilled"

\* Promise.any over the per-relay publish promises of one event.  A row
\* counts the promises of one event by their state.
PromiseAny(row) ==
  IF row.ok > 0 THEN "fulfilled"
  ELSE IF row.pending = 0 THEN "rejected"
  ELSE "pending"

(* ------------------------------ status --------------------------------- *)
St(tag, a, b) == [tag |-> tag, a |-> a, b |-> b]
StInitial == St("", 0, 0)
StFetching == St("Fetching events...", 0, 0)
StFound(n) == St("Found events to clone...", n, 0)
StCloning == St("Cloning events...", 0, 0)
StCloningEvent(k, n) == St("Cloning event", k, n)
StPublishing == St("Publishing events...", 0, 0)
StPublishingEvent(k, n) == St("Publishing event", k, n)
StComplete == St("Complete!", 0, 0)

\* The setStatus calls of lines 87-105 up to the k-th event of the map.
StatusThroughCloning(k, n) ==
  << StFound(n), StCloning >> \o [e \in 1..k |-> StCloningEvent(e, n)]

\* What the handler's closure read from the component state: nothing while
\* no invocation runs.
NoStart == [relays |-> << >>, nsec |-> << >>]

(* ------------------------------- Init ---------------------------------- *)
Init ==
  /\ npub = << >>
  /\ relays = << DefaultRelay >>
  /\ events = << >>
  /\ isModalOpen = FALSE
  /\ nsec = << >>
  /\ isLoading = FALSE
  /\ error = Null
  /\ status = StInitial
  /\ pc = "idle"
  /\ cNsec = << >>
  /\ cRelays = << >>
  /\ fetchedEvents = << >>
  /\ clonedEvents = << >>
  /\ i = 0
  /\ pub = << >>
  /\ clock = 0
  /\ edits = 0
  /\ invocations = 0
  /\ outcome = "none"
  /\ failedAt = "none"
  /\ queryIssued = FALSE
  /\ publishLog = << >>
  /\ errorsSet = 0
  /\ pubOutcome = << >>
  /\ startedAfter = << >>
  /\ sampled = << >>
  /\ statusLog = << >>
  /\ atStart = NoStart
  /\ relayLog = << >>
  /\ prevOutcome = "none"

(* ---------------------------- UI handlers ------------------------------ *)
\* Edits made while handleCloneEvents is between two awaits are counted.
CountEdit ==
  /\ isLoading => edits < MaxEdits
  /\ edits' = IF isLoading THEN edits + 1 ELSE edits

editFrame == << localVars, clock, invocations, outcome, failedAt, queryIssued, publishLog,
               errorsSet, pubOutcome, startedAfter, sampled, statusLog, atStart,
               relayLog, prevOutcome >>

\* The Identity and Relays cards lie behind the modal dialog: they take
\* input only while the dialog is closed.
SetNpub(value) ==
  /\ CountEdit
  /\ ~isModalOpen
  /\ npub # value
  /\ npub' = value
  /\ UNCHANGED << relays, events, isModalOpen, nsec, isLoading, error, status,
                  editFrame >>

SetNsec(value) ==
  /\ CountEdit
  /\ isModalOpen
  /\ nsec # value
  /\ nsec' = value
  /\ UNCHANGED << npub, relays, events, isModalOpen, isLoading, error, status,
                  editFrame >>

addRelayInput ==
  /\ CountEdit
  /\ ~isModalOpen
  /\ Len(relays) < MaxRelays
  /\ relays' = Append(relays, "")
  /\ UNCHANGED << npub, events, isModalOpen, nsec, isLoading, error, status,
                  editFrame >>

\* The remove button rendered on every row, also on the only one.
RemoveOffered_Always == TRUE

\* Line 189: the remove button is rendered only while the list has more
\* than one entry.
RemoveOffered == Len(relays) > 1

removeRelayInput(index) ==
  /\ CountEdit
  /\ ~isModalOpen
  /\ RemoveOffered
  /\ index \in 1..Len(relays)
  /\ relays' = [k \in 1..(Len(relays) - 1) |->
                  IF k < index THEN relays[k] ELSE relays[k + 1]]
  /\ UNCHANGED << npub, events, isModalOpen, nsec, isLoading, error, status,
                  editFrame >>

updateRelay(index, value) ==
  /\ CountEdit
  /\ ~isModalOpen
  /\ index \in 1..Len(relays)
  /\ relays[index] # value
  /\ relays' = [relays EXCEPT ![index] = value]
  /\ UNCHANGED << npub, events, isModalOpen, nsec, isLoading, error, status,
                  editFrame >>

handleDrawSword ==
  /\ ~isModalOpen
  /\ isModalOpen' = TRUE
  /\ UNCHANGED << npub, relays, events, nsec, isLoading, error, status,
                  localVars, clock, histVars >>

\* Dialog onOpenChange(false): the user dismisses the dialog.
CloseDialog ==
  /\ isModalOpen
  /\ isModalOpen' = FALSE
  /\ UNCHANGED << npub, relays, events, nsec, isLoading, error, status,
                  localVars, clock, histVars >>

(* ------------------------- handleCloneEvents --------------------------- *)
\* The source key text taken as it is, with no check before the query.
NpubError_Unchecked(text) == Null

\* Lines 65-72: the message thrown for the source key text, or Null.
NpubError(text) ==
  IF ~StartsWith(text, "npub1") THEN "Invalid npub format. Must start with npub1"
  ELSE IF Nip19Decode(text).type = "throw" THEN Nip19Decode(text).data
  ELSE IF Nip19Decode(text).type # "npub" THEN "Invalid npub"
  ELSE Null

\* Lines 90-97: the message thrown for a non-empty destination key text.
NsecError(text) ==
  IF ~StartsWith(text, "nsec1") THEN "Invalid nsec format. Must start with nsec1"
  ELSE IF Nip19Decode(text).type = "throw" THEN Nip19Decode(text).data
  ELSE IF Nip19Decode(text).type # "nsec" THEN "Invalid nsec"
  ELSE Null

\* The cloning block entered whether or not a destination key was typed.
Truthy_Always(text) == TRUE

\* Line 89: a non-empty string is truthy.
Truthy(text) == Len(text) > 0

\* The spread of line 107 with no created_at after it: the clone keeps the
\* timestamp of its source.
CloneEvent_KeepsTimestamp(event, newPubkey, secretKey, now) ==
  FinalizeEvent([event EXCEPT !.pubkey = newPubkey, !.id = "", !.sig = ""], secretKey)

\* The map callback returning newEvent as built at 106-112, without the
\* call of finalizeEvent: id and sig stay empty.
CloneEvent_Unsigned(event, newPubkey, secretKey, now) ==
  [event EXCEPT !.pubkey = newPubkey, !.created_at = now, !.id = "", !.sig = ""]

\* Lines 104-115: the clone of one fetched event, stamped with the clock
\* value read while it is transformed.
CloneEvent(event, newPubkey, secretKey, now) ==
  FinalizeEvent([event EXCEPT !.pubkey = newPubkey, !.created_at = now,
                              !.id = "", !.sig = ""], secretKey)

CloneAll(fetched, secretKey, times) ==
  [k \in 1..Len(fetched) |->
     CloneEvent(fetched[k], GetPublicKey(secretKey), secretKey, times[k])]

\* pool.querySync: n events of the author, at most QueryLimit; the events
\* are named by their place in the answer.
QueryResults ==
  { s \in { [k \in 1..n |-> k] : n \in 0..MaxEvents } : Len(s) <= QueryLimit }

FetchedOf(s) == [k \in DOMAIN s |-> SourceEvent(s[k])]

\* Date.now() read once per event of the map: clock is the last value read,
\* and the clock never runs back.
SampleTimes(n) ==
  { t \in [1..n -> { x \in Instants : x >= clock }] :
      \A a, b \in 1..n : a <= b => t[a] <= t[b] }

\* The relay list read by the fan-out from the component state as it is
\* when the publish is issued.
PublishTargets_Live == relays

\* Line 123: relays in the loop is the list of the render in which the
\* button was clicked, the same one handed to querySync at line 77.
PublishTargets == cRelays

\* Line 123-125: one pool.publish promise per entry of the relay list.
FanOut(relayList) == [pending |-> Len(relayList), ok |-> 0, fail |-> 0]

\* One promise of a row settles.
Settle(row, answer) ==
  IF answer = "ok"
    THEN [row EXCEPT !.pending = @ - 1, !.ok = @ + 1]
    ELSE [row EXCEPT !.pending = @ - 1, !.fail = @ + 1]

\* Every event handed to the relays at once (no loop, no await between).
InitialPub_AllAtOnce(n, relayList) == [j \in 1..n |-> FanOut(relayList)]


\* Lines 119-126, first iteration: only the first event is handed to the
\* relays; the others wait for their turn in the loop.
InitialPub(n, relayList) == << FanOut(relayList) >>

\* catch (137-139) and finally (140-143); the handler returns and its
\* closure (the key text and relay list it read, the pool and the publish
\* promises) goes out of scope.
Catch(message, step) ==
  /\ error' = message
  /\ failedAt' = step
  /\ errorsSet' = errorsSet + 1
  /\ isLoading' = FALSE
  /\ isModalOpen' = FALSE
  /\ pc' = "idle"
  /\ outcome' = "Failed"
  /\ edits' = 0
  /\ cNsec' = << >>
  /\ cRelays' = << >>
  /\ pub' = << >>
  /\ atStart' = NoStart
  /\ relayLog' = << >>
  /\ UNCHANGED prevOutcome

\* The finally block missing: the flags are left as they were set at 59.
Finally_FlagsLeftSet(result) ==
  /\ failedAt' = "none"
  /\ UNCHANGED << isLoading, isModalOpen >>
  /\ pc' = "idle"
  /\ outcome' = result
  /\ edits' = 0
  /\ cNsec' = << >>
  /\ cRelays' = << >>
  /\ pub' = << >>
  /\ atStart' = NoStart
  /\ relayLog' = << >>
  /\ UNCHANGED prevOutcome

\* finally (140-143) without a throw and without the cloning block.
Finally(result) ==
  /\ failedAt' = "none"
  /\ isLoading' = FALSE
  /\ isModalOpen' = FALSE
  /\ pc' = "idle"
  /\ outcome' = result
  /\ edits' = 0
  /\ cNsec' = << >>
  /\ cRelays' = << >>
  /\ pub' = << >>
  /\ atStart' = NoStart
  /\ relayLog' = << >>
  /\ UNCHANGED prevOutcome

\* The button left enabled while an invocation runs.
CloneDisabled_Never == FALSE

\* Line 229: disabled={isLoading}.
CloneDisabled == isLoading

\* The error of the previous invocation left in place at the start.
ClearedError_Kept == error

\* Line 60: setError(null).
ClearedError == Null

\* Lines 58-81: from the click to the await of pool.querySync.  The button
\* is rendered inside the dialog.
CloneStart ==
  /\ isModalOpen
  /\ ~CloneDisabled
  /\ invocations < MaxInvocations
  /\ invocations' = invocations + 1
  /\ edits' = 0
  /\ fetchedEvents' = << >>
  /\ clonedEvents' = << >>
  /\ i' = 0
  /\ pub' = << >>
  /\ publishLog' = << >>
  /\ pubOutcome' = << >>
  /\ startedAfter' = << >>
  /\ sampled' = << >>
  /\ relayLog' = << >>
  /\ prevOutcome' = outcome
  /\ IF NpubError(npub) # Null
       THEN /\ error' = NpubError(npub)
            /\ errorsSet' = 1
            /\ isLoading' = FALSE
            /\ isModalOpen' = FALSE
            /\ pc' = "idle"
            /\ outcome' = "Failed"
            /\ failedAt' = "npub"
            /\ queryIssued' = FALSE
            /\ cNsec' = << >>
            /\ cRelays' = << >>
            /\ atStart' = NoStart
            /\ statusLog' = << >>
            /\ UNCHANGED status
       ELSE /\ error' = ClearedError
            /\ errorsSet' = 0
            /\ isLoading' = TRUE
            /\ status' = StFetching
            /\ queryIssued' = TRUE
            /\ pc' = "awaitQuery"
            /\ outcome' = "running"
            /\ failedAt' = "none"
            /\ cNsec' = nsec
            /\ cRelays' = relays
            /\ atStart' = [relays |-> relays, nsec |-> nsec]
            /\ statusLog' = << StFetching >>
            /\ UNCHANGED isModalOpen
  /\ UNCHANGED << npub, relays, events, nsec, clock >>

\* Lines 83-85: the query came back empty.
QueryEmpty ==
  /\ pc = "awaitQuery"
  /\ fetchedEvents' = << >>
  /\ Catch("No events found for this pubkey", "query")
  /\ UNCHANGED << npub, relays, events, nsec, status,
                  clonedEvents, i, clock, invocations, queryIssued,
                  publishLog, pubOutcome, startedAfter, sampled, statusLog >>

\* Lines 87-89 and 140-143: events found, no destination key.
QueryNoNsec(result) ==
  /\ pc = "awaitQuery"
  /\ Len(result) # 0
  /\ ~Truthy(cNsec)
  /\ fetchedEvents' = FetchedOf(result)
  /\ status' = StFound(Len(result))
  /\ statusLog' = Append(statusLog, StFound(Len(result)))
  /\ Finally("EarlyExit")
  /\ UNCHANGED << npub, relays, events, nsec, error,
                  clonedEvents, i, clock, invocations, queryIssued,
                  publishLog, errorsSet, pubOutcome, startedAfter, sampled >>

\* Lines 90-97: events found, the destination key text does not decode.
QueryNsecInvalid(result) ==
  /\ pc = "awaitQuery"
  /\ Len(result) # 0
  /\ Truthy(cNsec)
  /\ NsecError(cNsec) # Null
  /\ fetchedEvents' = FetchedOf(result)
  /\ status' = StFound(Len(result))
  /\ statusLog' = Append(statusLog, StFound(Len(result)))
  /\ Catch(NsecError(cNsec), "nsec")
  /\ UNCHANGED << npub, relays, events, nsec,
                  clonedEvents, i, clock, invocations, queryIssued,
                  publishLog, pubOutcome, startedAfter, sampled >>

\* Signing and publishing interleaved per event: the events before the
\* failing one have been published when finalizeEvent throws.
QuerySignFails_Interleaved(result, failAt) ==
  /\ pc = "awaitQuery"
  /\ Len(result) # 0
  /\ Truthy(cNsec)
  /\ NsecError(cNsec) = Null
  /\ failAt \in 1..Len(result)
  /\ fetchedEvents' = FetchedOf(result)
  /\ status' = StCloningEvent(failAt, Len(result))
  /\ Catch("signing failed", "sign")
  /\ publishLog' = [k \in 1..(failAt - 1) |-> k]
  /\ statusLog' = statusLog \o StatusThroughCloning(failAt, Len(result))
  /\ UNCHANGED << npub, relays, events, nsec,
                  clonedEvents, i, clock, invocations, queryIssued,
                  pubOutcome, startedAfter, sampled >>

\* Lines 104-115: finalizeEvent throws on the failAt-th event of the map.
QuerySignFails(result, failAt) ==
  /\ pc = "awaitQuery"
  /\ Len(result) # 0
  /\ Truthy(cNsec)
  /\ NsecError(cNsec) = Null
  /\ failAt \in 1..Len(result)
  /\ fetchedEvents' = FetchedOf(result)
  /\ status' = StCloningEvent(failAt, Len(result))
  /\ statusLog' = statusLog \o StatusThroughCloning(failAt, Len(result))
  /\ Catch("signing failed", "sign")
  /\ UNCHANGED << npub, relays, events, nsec,
                  clonedEvents, i, clock, invocations, queryIssued,
                  publishLog, pubOutcome, startedAfter, sampled >>

\* Lines 99-126: all events cloned and signed, the publish of the first
\* one started on every relay of the list.
QueryThenPublish(result, times) ==
  /\ pc = "awaitQuery"
  /\ Len(result) # 0
  /\ Truthy(cNsec)
  /\ NsecError(cNsec) = Null
  /\ times \in SampleTimes(Len(result))
  /\ fetchedEvents' = FetchedOf(result)
  /\ clonedEvents' = CloneAll(FetchedOf(result), Nip19Decode(cNsec).data, times)
  /\ clock' = times[Len(result)]
  /\ status' = StPublishingEvent(1, Len(result))
  /\ i' = 1
  /\ pub' = InitialPub(Len(result), PublishTargets)
  /\ relayLog' = << PublishTargets >>
  /\ sampled' = times
  /\ statusLog' = statusLog \o StatusThroughCloning(Len(result), Len(result))
                     \o << StPublishing, StPublishingEvent(1, Len(result)) >>
  /\ publishLog' = << 1 >>
  /\ startedAfter' = << "first" >>
  /\ pubOutcome' = [j \in 1..Len(result) |-> "none"]
  /\ pc' = "awaitPublish"
  /\ UNCHANGED << npub, relays, events, isModalOpen, nsec, isLoading, error,
                  cNsec, cRelays, edits, invocations, outcome, failedAt, queryIssued,
                  errorsSet, atStart, prevOutcome >>

QueryResolved ==
  \/ QueryEmpty
  \/ \E result \in QueryResults :
       \/ QueryNoNsec(result)
       \/ QueryNsecInvalid(result)
       \/ \E failAt \in 1..MaxEvents : QuerySignFails(result, failAt)
       \/ \E times \in SampleTimes(Len(result)) : QueryThenPublish(result, times)

\* The inner try/catch missing: a failed publish ends the loop and the
\* invocation.
LoopNext_Escalates(j, how, newPub) ==
  IF how # "catch" /\ j <= Len(clonedEvents)
    THEN /\ status' = StPublishingEvent(j, Len(clonedEvents))
         /\ pub' = Append(newPub, FanOut(PublishTargets))
         /\ relayLog' = Append(relayLog, PublishTargets)
         /\ statusLog' = Append(statusLog, StPublishingEvent(j, Len(clonedEvents)))
         /\ i' = j
         /\ publishLog' = Append(publishLog, j)
         /\ startedAfter' = Append(startedAfter, how)
         /\ pc' = "awaitPublish"
         /\ UNCHANGED << events, isLoading, isModalOpen, outcome, failedAt, cNsec,
                         cRelays, edits, atStart, prevOutcome >>
    ELSE /\ events' = IF how = "catch" THEN events ELSE clonedEvents
         /\ status' = IF how = "catch" THEN status ELSE StComplete
         /\ statusLog' = IF how = "catch" THEN statusLog
                          ELSE Append(statusLog, StComplete)
         /\ i' = j
         /\ IF how = "catch"
              THEN /\ isLoading' = FALSE
                   /\ isModalOpen' = FALSE
                   /\ pc' = "idle"
                   /\ outcome' = "Failed"
                   /\ failedAt' = "publish"
                   /\ edits' = 0
                   /\ cNsec' = << >>
                   /\ cRelays' = << >>
                   /\ pub' = << >>
                   /\ atStart' = NoStart
                   /\ relayLog' = << >>
                   /\ UNCHANGED prevOutcome
              ELSE Finally("Done")
         /\ UNCHANGED << publishLog, startedAfter >>

\* setEvents given only the clones whose publish succeeded.
LoopNext_OnlyPublished(j, how, newPub) ==
  IF j <= Len(clonedEvents)
    THEN /\ status' = StPublishingEvent(j, Len(clonedEvents))
         /\ pub' = Append(newPub, FanOut(PublishTargets))
         /\ relayLog' = Append(relayLog, PublishTargets)
         /\ statusLog' = Append(statusLog, StPublishingEvent(j, Len(clonedEvents)))
         /\ i' = j
         /\ publishLog' = Append(publishLog, j)
         /\ startedAfter' = Append(startedAfter, how)
         /\ pc' = "awaitPublish"
         /\ UNCHANGED << events, isLoading, isModalOpen, outcome, failedAt, cNsec,
                         cRelays, edits, atStart, prevOutcome >>
    ELSE /\ events' = SelectSeq(clonedEvents,
                         LAMBDA ev : \E k \in DOMAIN newPub :
                                       /\ clonedEvents[k] = ev
                                       /\ PromiseAny(newPub[k]) = "fulfilled")
         /\ status' = StComplete
         /\ statusLog' = Append(statusLog, StComplete)
         /\ i' = j
         /\ Finally("Done")
         /\ UNCHANGED << publishLog, startedAfter >>

\* setStatus('Complete!') moved into the loop body, after each publish.
LoopNext_CompleteInLoop(j, how, newPub) ==
  IF j <= Len(clonedEvents)
    THEN /\ status' = StPublishingEvent(j, Len(clonedEvents))
         /\ pub' = Append(newPub, FanOut(PublishTargets))
         /\ relayLog' = Append(relayLog, PublishTargets)
         /\ statusLog' = statusLog \o << StComplete,
                                          StPublishingEvent(j, Len(clonedEvents)) >>
         /\ i' = j
         /\ publishLog' = Append(publishLog, j)
         /\ startedAfter' = Append(startedAfter, how)
         /\ pc' = "awaitPublish"
         /\ UNCHANGED << events, isLoading, isModalOpen, outcome, failedAt, cNsec,
                         cRelays, edits, atStart, prevOutcome >>
    ELSE /\ events' = clonedEvents
         /\ status' = StComplete
         /\ statusLog' = Append(statusLog, StComplete)
         /\ i' = j
         /\ Finally("Done")
         /\ UNCHANGED << publishLog, startedAfter >>

\* Lines 119-135: the for loop at index j (1-based), entered by path how;
\* past the last event it falls through to setEvents and the finally block.
LoopNext(j, how, newPub) ==
  IF j <= Len(clonedEvents)
    THEN /\ status' = StPublishingEvent(j, Len(clonedEvents))
         /\ pub' = Append(newPub, FanOut(PublishTargets))
         /\ relayLog' = Append(relayLog, PublishTargets)
         /\ statusLog' = Append(statusLog, StPublishingEvent(j, Len(clonedEvents)))
         /\ i' = j
         /\ publishLog' = Append(publishLog, j)
         /\ startedAfter' = Append(startedAfter, how)
         /\ pc' = "awaitPublish"
         /\ UNCHANGED << events, isLoading, isModalOpen, outcome, failedAt, cNsec,
                         cRelays, edits, atStart, prevOutcome >>
    ELSE /\ events' = clonedEvents
         /\ status' = StComplete
         /\ statusLog' = Append(statusLog, StComplete)
         /\ i' = j
         /\ Finally("Done")
         /\ UNCHANGED << publishLog, startedAfter >>

\* A relay answers one of the publishes of event j.  If that settles the
\* Promise.any the handler is awaiting, the handler runs on: to the pacing
\* timer (127-128) or through the catch (129-131).
RelaySettles(j, answer) ==
  /\ j \in DOMAIN pub
  /\ pub[j].pending > 0
  /\ LET newPub == [pub EXCEPT ![j] = Settle(pub[j], answer)]
         race == IF pc = "awaitPublish" /\ j = i
                   THEN PromiseAny(newPub[j]) ELSE "pending"
     IN CASE race = "fulfilled" ->
               /\ pub' = newPub
               /\ pc' = "pacing"
               /\ pubOutcome' = [pubOutcome EXCEPT ![i] = "ok"]
               /\ UNCHANGED << events, isModalOpen, isLoading, status, i,
                               outcome, failedAt, publishLog, startedAfter, cNsec,
                               cRelays, edits, statusLog, atStart, relayLog,
                               prevOutcome >>
          [] race = "rejected" ->
               /\ pubOutcome' = [pubOutcome EXCEPT ![i] = "fail"]
               /\ LoopNext(i + 1, "catch", newPub)
          [] OTHER ->
               /\ pub' = newPub
               /\ UNCHANGED << events, isModalOpen, isLoading, status, pc, i,
                               outcome, failedAt, publishLog, pubOutcome,
                               startedAfter, cNsec, cRelays, edits, statusLog,
                               atStart, relayLog, prevOutcome >>
  /\ UNCHANGED << npub, relays, nsec, error, fetchedEvents,
                  clonedEvents, clock, invocations, queryIssued, errorsSet, sampled >>

RelayAccepts == \E j \in 1..MaxEvents : RelaySettles(j, "ok")
RelayRejects == \E j \in 1..MaxEvents : RelaySettles(j, "fail")

\* Line 128: the 50 ms timer fires.
DelayElapsed ==
  /\ pc = "pacing"
  /\ LoopNext(i + 1, "delay", pub)
  /\ UNCHANGED << npub, relays, nsec, error, fetchedEvents,
                  clonedEvents, clock, invocations, queryIssued, errorsSet,
                  pubOutcome, sampled >>

(* --------------------------- specification ----------------------------- *)
Next ==
  \/ \E value \in NpubTexts : SetNpub(value)
  \/ \E value \in NsecTexts : SetNsec(value)
  \/ addRelayInput
  \/ \E index \in 1..MaxRelays : removeRelayInput(index)
  \/ \E index \in 1..MaxRelays, value \in RelayTexts : updateRelay(index, value)
  \/ handleDrawSword
  \/ CloseDialog
  \/ CloneStart
  \/ QueryResolved
  \/ RelayAccepts
  \/ RelayRejects
  \/ DelayElapsed

Spec == Init /\ [][Next]_vars

\* The awaited promises settle: the relay query returns or times out, every
\* per-relay publish is accepted, rejected or times out, the timer fires.
Fairness ==
  /\ WF_vars(QueryResolved)
  /\ \A j \in 1..MaxEvents : WF_vars(RelaySettles(j, "ok") \/ RelaySettles(j, "fail"))
  /\ WF_vars(DelayElapsed)

LiveSpec == Spec /\ Fairness

TypeOK ==
  /\ npub \in NpubTexts
  /\ nsec \in NsecTexts
  /\ Len(relays) \in 1..MaxRelays
  /\ isModalOpen \in BOOLEAN
  /\ isLoading \in BOOLEAN
  /\ pc \in {"idle", "awaitQuery", "awaitPublish", "pacing"}
  /\ outcome \in {"none", "running", "Failed", "Done", "EarlyExit"}
  /\ clock \in Instants

(* ============================== claims ================================= *)
HasPending(row) == row.pending > 0
UpTo(n) == [k \in 1..n |-> k]

\* C1: an invocation that ends in Failed has issued no publish to any relay
\* and has set exactly one error message; whenever a publish has been
\* issued, every fetched event had been cloned and signed before it.
C1_FailedWithoutPublish ==
  /\ outcome = "Failed" =>
       /\ publishLog = << >>
       /\ pub = << >>
       /\ errorsSet = 1
       /\ error # Null
  /\ publishLog # << >> =>
       /\ outcome # "Failed"
       /\ Len(clonedEvents) = Len(fetchedEvents)

\* C1 witness: finalizeEvent threw on the second of two fetched events.
C1_Witness ==
  /\ outcome = "Failed"
  /\ failedAt = "sign"
  /\ status = StCloningEvent(2, 2)

\* C2: the publishing loop issues one fan-out per cloned event, in fetch
\* order, whatever the publish outcomes; a failed publish never ends the
\* invocation in Failed, and at Done every event has been attempted once
\* and no error message is set.
C2_PartialSuccess ==
  /\ pc \in {"awaitPublish", "pacing"} => publishLog = UpTo(i)
  /\ (\E j \in DOMAIN pubOutcome : pubOutcome[j] = "fail") =>
       outcome \in {"running", "Done"}
  /\ outcome = "Done" =>
       /\ publishLog = UpTo(Len(fetchedEvents))
       /\ \A j \in DOMAIN pubOutcome : pubOutcome[j] # "none"
       /\ error = Null
       /\ errorsSet = 0

\* C2 witness: two events, the publish of each failed, the invocation is Done.
C2_Witness ==
  /\ outcome = "Done"
  /\ pubOutcome = << "fail", "fail" >>
  /\ publishLog = << 1, 2 >>

\* C3: the awaited fan-out resolves as success in the very step in which
\* the first relay accepts the event, whatever the other relays have done;
\* the handler is never left waiting once a relay has accepted.
C3_FirstSuccessWins ==
  /\ [](pc = "awaitPublish" => pub[i].ok = 0)
  /\ [][ (pc = "awaitPublish" /\ i \in DOMAIN pub' /\ pub'[i].ok > pub[i].ok)
        => (pc' = "pacing" /\ i' = i /\ pubOutcome'[i] = "ok") ]_vars

\* C3 witness: the publish of an event resolved as success while another
\* relay of the list had not answered yet.
C3_Witness ==
  /\ pc = "pacing"
  /\ pubOutcome[i] = "ok"
  /\ pub[i].ok = 1
  /\ pub[i].pending > 0

\* C4: the publish of an event is recorded as failed exactly when every
\* relay of the list has rejected it, and as a success only when some relay
\* has accepted it.
C4_AllRejectedFails ==
  /\ [](\A j \in DOMAIN pub :
          /\ pubOutcome[j] = "fail" <=> (pub[j].pending = 0 /\ pub[j].ok = 0)
          /\ pubOutcome[j] = "ok" => pub[j].ok > 0)
  /\ [][ \A j \in DOMAIN pubOutcome \cap DOMAIN pubOutcome' :
           (pubOutcome[j] = "none" /\ pubOutcome'[j] = "fail")
             => (pub[j].ok = 0 /\ pub[j].pending = 1) ]_vars

\* C4 witness: every relay of a list of more than one rejected an event.
C4_Witness ==
  \E j \in DOMAIN pub :
    /\ pub[j].fail > 1
    /\ pubOutcome[j] = "fail"

\* C5 (as claimed): every publish after the first is started by the expiry
\* of the pacing delay that followed the previous publish outcome.
C5_DelayBeforeEveryNext ==
  \A j \in DOMAIN startedAfter : j > 1 => startedAfter[j] = "delay"

\* C6 (as claimed): relay publishes of two different events are never
\* unsettled at the same time.
C6_NoTwoEventsInFlight ==
  \A a, b \in DOMAIN pub : (HasPending(pub[a]) /\ HasPending(pub[b])) => a = b

\* C6 (amended): pub holds the events handed to the relays so far; the
\* fan-out of an event is started only after the awaited
\* race of every earlier event has resolved, and a publish left unsettled
\* behind the loop belongs to an event whose race was won by another relay.
C6_OneRaceAtATime ==
  \A a, b \in DOMAIN pub :
    a < b =>
      /\ pubOutcome[a] # "none"
      /\ HasPending(pub[a]) => pubOutcome[a] = "ok"

\* C6 witness: the second event is at the relays while a publish of the
\* first is still unsettled.
C6_Witness ==
  /\ Len(pub) = 2
  /\ HasPending(pub[1])
  /\ HasPending(pub[2])
  /\ pubOutcome[1] = "ok"

\* C7 (as claimed): an invocation that fails on the decoding of either key
\* text has issued no relay query.
C7_KeysBeforeQuery ==
  (outcome = "Failed" /\ failedAt \in {"npub", "nsec"}) => ~queryIssued

\* C7 (amended): an invocation whose source key text does not decode ends
\* in Failed at once, with no relay query issued; the destination key text
\* is decoded only after the query has returned events, and a failure of it
\* ends the invocation in Failed before any event is cloned or published.
C7_SourceKeyBeforeQuery ==
  /\ [][ (invocations' # invocations /\ npub # << "npub1", "good" >>)
          => (outcome' = "Failed" /\ failedAt' = "npub" /\ ~queryIssued'
              /\ pc' = "idle") ]_vars
  /\ [](failedAt = "npub" => ~queryIssued)
  /\ [](failedAt = "nsec" =>
          /\ queryIssued
          /\ fetchedEvents # << >>
          /\ clonedEvents = << >>
          /\ publishLog = << >>)

\* C7 witness: an invocation failed on the source key text.
C7_Witness ==
  /\ outcome = "Failed"
  /\ failedAt = "npub"
  /\ invocations = 1

\* C8 (as claimed): an invocation started with an empty destination key
\* text ends as the early exit with no error, whatever the query returns.
C8_NoNsecAlwaysEarlyExit ==
  [][ (pc = "awaitQuery" /\ cNsec = << >> /\ pc' = "idle")
      => (outcome' = "EarlyExit" /\ error' = Null) ]_vars

\* C8 (amended): an invocation started with an empty destination key text
\* whose query returns at least one event ends as the early exit: no event
\* cloned, no publish, no error, the displayed events left as they were;
\* if the query returns no event it ends in Failed with the no-events error.
C8_NoNsecEarlyExit ==
  [][ (pc = "awaitQuery" /\ cNsec = << >> /\ pc' # pc)
      => /\ pc' = "idle"
         /\ clonedEvents' = << >>
         /\ publishLog' = << >>
         /\ events' = events
         /\ IF fetchedEvents' # << >>
              THEN outcome' = "EarlyExit" /\ error' = Null /\ errorsSet' = 0
              ELSE /\ outcome' = "Failed"
                   /\ failedAt' = "query"
                   /\ error' = "No events found for this pubkey" ]_vars

\* C8 witness: an early exit after a query that returned two events.
C8_Witness ==
  /\ outcome = "EarlyExit"
  /\ Len(fetchedEvents) = 2
  /\ error = Null

\* C9: at Done the displayed events are the clones of all fetched events,
\* one per fetched event and in fetch order, whatever the publish outcomes,
\* and the status is the final one.
C9_DoneShowsAllClones ==
  outcome = "Done" =>
    /\ Len(events) = Len(fetchedEvents)
    /\ \A k \in DOMAIN events :
         /\ events[k].content = fetchedEvents[k].content
         /\ events[k].kind = fetchedEvents[k].kind
         /\ events[k].tags = fetchedEvents[k].tags
         /\ events[k].id # fetchedEvents[k].id
    /\ status = StComplete

\* C9 witness: Done with two events of which the first was published by no
\* relay.
C9_Witness ==
  /\ outcome = "Done"
  /\ Len(events) = 2
  /\ pubOutcome = << "fail", "ok" >>

\* C10 (as claimed): after an invocation that ended in Failed or in the
\* early exit, no cloned events and no final status of an earlier
\* invocation are displayed.
C10_NoStaleOutput ==
  outcome \in {"Failed", "EarlyExit"} =>
    /\ events = << >>
    /\ status # StComplete

\* C12 (as claimed): once an invocation has ended (Done, Failed or the
\* early exit) no destination secret key text is held in the state, neither
\* in the key field of the dialog nor in the handler's own copy.
C12_KeyDiscardedAtEnd ==
  [][ (pc' = "idle" /\ (pc # "idle" \/ invocations' # invocations))
      => (nsec' = << >> /\ cNsec' = << >>) ]_vars

Ended == {"Done", "Failed", "EarlyExit"}

\* C13: if the relay query and every per-relay publish eventually settle,
\* a started invocation eventually ends in Done, in Failed or in the early
\* exit, and the step that ends it leaves isLoading false and the dialog
\* closed; isLoading is false whenever no invocation is running.
C13_RunsToCompletion ==
  /\ (outcome = "running") ~> (outcome \in Ended /\ pc = "idle")
  /\ [][ (pc' = "idle" /\ (pc # "idle" \/ invocations' # invocations))
          => (outcome' \in Ended /\ ~isLoading' /\ ~isModalOpen') ]_vars
  /\ [](pc = "idle" <=> ~isLoading)

\* C13 witness: an invocation that published two events has ended, the
\* flag is reset and the dialog closed.
C13_Witness ==
  /\ outcome = "Done"
  /\ Len(publishLog) = 2
  /\ ~isLoading
  /\ ~isModalOpen

Publishing == pc \in {"awaitPublish", "pacing"}

\* C14: the k-th cloned event is made from the k-th fetched event: same
\* kind, tags and content, the one public key derived from the destination
\* secret key as author, and as created_at the clock value read while that
\* event was transformed, not the created_at of its source.
C14_TransformShape ==
  clonedEvents # << >> =>
    /\ Len(clonedEvents) = Len(fetchedEvents)
    /\ Len(sampled) = Len(fetchedEvents)
    /\ \A k \in DOMAIN clonedEvents :
         /\ clonedEvents[k].kind = fetchedEvents[k].kind
         /\ clonedEvents[k].tags = fetchedEvents[k].tags
         /\ clonedEvents[k].content = fetchedEvents[k].content
         /\ clonedEvents[k].pubkey = clonedEvents[1].pubkey
         /\ clonedEvents[k].pubkey # fetchedEvents[k].pubkey
         /\ Publishing =>
              clonedEvents[k].pubkey = GetPublicKey(Nip19Decode(atStart.nsec).data)
         /\ clonedEvents[k].created_at = sampled[k]
         /\ clonedEvents[k].created_at # fetchedEvents[k].created_at
         /\ clonedEvents[k].id = EventHash(clonedEvents[k])

\* C14 witness: two events cloned in two different seconds.
C14_Witness ==
  /\ Publishing
  /\ Len(clonedEvents) = 2
  /\ sampled = << 0, 1 >>
  /\ clonedEvents[2].content = fetchedEvents[2].content

\* C15 (as claimed): while an invocation publishes, events holds the clones
\* of an earlier invocation; a clone of the same fetched event made by the
\* two invocations has the same kind, tags, content and author and always
\* a different id.
C15_AlwaysDifferentIds ==
  Publishing =>
    \A a \in DOMAIN events, b \in DOMAIN clonedEvents :
      events[a].content = clonedEvents[b].content =>
        /\ events[a].kind = clonedEvents[b].kind
        /\ events[a].tags = clonedEvents[b].tags
        /\ events[a].pubkey = clonedEvents[b].pubkey
        /\ events[a].id # clonedEvents[b].id

\* C15 (amended): the two clones have the same kind, tags, content and
\* author, and their ids differ exactly when the two clock values read
\* differ: two transformations within the same second give the same id.
C15_IdsDifferWithTime ==
  Publishing =>
    \A a \in DOMAIN events, b \in DOMAIN clonedEvents :
      events[a].content = clonedEvents[b].content =>
        /\ events[a].kind = clonedEvents[b].kind
        /\ events[a].tags = clonedEvents[b].tags
        /\ events[a].pubkey = clonedEvents[b].pubkey
        /\ (events[a].id = clonedEvents[b].id
              <=> events[a].created_at = clonedEvents[b].created_at)

\* C15 witness: the same fetched event cloned by two invocations in two
\* different seconds, with two different ids.
C15_Witness ==
  /\ Publishing
  /\ \E a \in DOMAIN events, b \in DOMAIN clonedEvents :
       /\ events[a].content = clonedEvents[b].content
       /\ events[a].created_at # clonedEvents[b].created_at
       /\ events[a].id # clonedEvents[b].id

\* The place of a status text in the order Fetching, Found, Cloning,
\* Cloning event 1..N, Publishing, Publishing event 1..N, Complete.
Rank(st) ==
  CASE st.tag = "Fetching events..." -> 1
    [] st.tag = "Found events to clone..." -> 2
    [] st.tag = "Cloning events..." -> 3
    [] st.tag = "Cloning event" -> 3 + st.a
    [] st.tag = "Publishing events..." -> 5 + MaxEvents
    [] st.tag = "Publishing event" -> 5 + MaxEvents + st.a
    [] st.tag = "Complete!" -> 7 + 2 * MaxEvents
    [] OTHER -> 0

\* C16: the statuses an invocation sets go strictly forward through
\* Fetching, Found N, Cloning 1..N, Publishing 1..N and Complete, each
\* counting the N fetched events; Complete is set last, only at Done and
\* only after the publish of every cloned event has resolved, and an
\* invocation that ends in Failed has not set it.
C16_StatusForward ==
  /\ \A a, b \in DOMAIN statusLog : a < b => Rank(statusLog[a]) < Rank(statusLog[b])
  /\ \A a \in DOMAIN statusLog :
       /\ Rank(statusLog[a]) > 0
       /\ statusLog[a].tag = "Found events to clone..." =>
            statusLog[a].a = Len(fetchedEvents)
       /\ statusLog[a].tag \in {"Cloning event", "Publishing event"} =>
            /\ statusLog[a].b = Len(fetchedEvents)
            /\ statusLog[a].a \in 1..Len(fetchedEvents)
            /\ statusLog[a].a > 1 =>
                 (a > 1 /\ statusLog[a - 1] = [statusLog[a] EXCEPT !.a = @ - 1])
       /\ statusLog[a] = StComplete =>
            /\ a = Len(statusLog)
            /\ outcome = "Done"
            /\ \A j \in DOMAIN clonedEvents : pubOutcome[j] # "none"
            /\ statusLog[a - 1] = StPublishingEvent(Len(clonedEvents), Len(clonedEvents))
  /\ statusLog # << >> =>
       /\ statusLog[1] = StFetching
       /\ status = statusLog[Len(statusLog)]
  /\ outcome = "Failed" => \A a \in DOMAIN statusLog : statusLog[a] # StComplete
  /\ outcome = "Done" => statusLog[Len(statusLog)] = StComplete

\* C16 witness: Done with two events, all nine statuses set in order.
C16_Witness ==
  /\ outcome = "Done"
  /\ Len(statusLog) = 9
  /\ statusLog[8] = StPublishingEvent(2, 2)

\* C17: an invocation starts only while none is running: from the step
\* that starts one to the step that ends it isLoading is true, and no click
\* and no opening or closing of the dialog starts a second one in between.
C17_OneInvocationInFlight ==
  /\ [](outcome = "running" <=> isLoading)
  /\ [](outcome = "running" <=> pc # "idle")
  /\ [][ invocations' # invocations
          => (pc = "idle" /\ outcome # "running" /\ ~isLoading) ]_vars

\* C17 witness: an invocation is running and the dialog, closed and opened
\* again after a relay edit, shows the Clone button once more.
C17_Witness ==
  /\ outcome = "running"
  /\ isModalOpen
  /\ relays # atStart.relays
  /\ invocations < MaxInvocations
  /\ NpubError(npub) = Null

\* C18: while an invocation runs, the relay list and the destination key
\* text it works with are the ones of the component state at its start,
\* whatever edits are made meanwhile: the fan-out of every event goes to
\* the relay list that was queried, and the key text decides the route
\* taken after the query.
C18_InputsFixedAtStart ==
  /\ [](outcome = "running" =>
          /\ cRelays = atStart.relays
          /\ cNsec = atStart.nsec
          /\ Len(relayLog) = Len(pub)
          /\ \A j \in DOMAIN relayLog :
               /\ relayLog[j] = atStart.relays
               /\ pub[j].pending + pub[j].ok + pub[j].fail = Len(atStart.relays))
  /\ [][ outcome' = "running" =>
          /\ invocations' # invocations =>
                atStart' = [relays |-> relays, nsec |-> nsec]
          /\ invocations' = invocations => atStart' = atStart ]_vars
  /\ [][ (pc = "awaitQuery" /\ pc' # pc) =>
          /\ pc' = "awaitPublish" => NsecError(atStart.nsec) = Null
          /\ outcome' = "EarlyExit" => atStart.nsec = << >>
          /\ failedAt' = "nsec" => NsecError(atStart.nsec) # Null ]_vars

\* C18 witness: the second event is handed to the relays the invocation
\* queried, after the relay list was changed in the component state.
C18_Witness ==
  /\ outcome = "running"
  /\ Len(relayLog) = 2
  /\ relays # atStart.relays
  /\ relayLog[2] = atStart.relays

\* C19: the relay list is never empty: not in the component state, not as
\* read by a running invocation, not as handed to a query or a publish.
C19_RelayListNonEmpty ==
  /\ Len(relays) >= 1
  /\ outcome = "running" => (Len(cRelays) >= 1 /\ Len(atStart.relays) >= 1)
  /\ \A j \in DOMAIN relayLog : Len(relayLog[j]) >= 1
  /\ \A j \in DOMAIN pub : pub[j].pending + pub[j].ok + pub[j].fail >= 1

\* C19 witness: a row was removed from a list of two while an invocation
\* ran; the one row left has no remove button.
C19_Witness ==
  /\ outcome = "running"
  /\ edits = 1
  /\ Len(atStart.relays) = 2
  /\ Len(relays) = 1
  /\ ~RemoveOffered

\* C20: the error is null while an invocation runs; once it has ended the
\* error is set exactly if it ended in Failed, also when the invocation
\* before it had left an error.
C20_ErrorIffFailed ==
  /\ outcome = "running" => (error = Null /\ errorsSet = 0)
  /\ outcome \in Ended => (error # Null <=> outcome = "Failed")
  /\ outcome = "Failed" => errorsSet = 1

\* C20 witness: an invocation that ended in Done or in the early exit after
\* one that ended in Failed; no error is left.
C20_Witness ==
  /\ prevOutcome = "Failed"
  /\ outcome \in {"Done", "EarlyExit"}
  /\ error = Null

====
